---- MODULE Spec2Model ----
(***************************************************************************)
(* A model of the VIP python client: VipLauncher (src/VipLauncher.py) and  *)
(* its subclass VipSession (src/VipSession.py).                             *)
(*                                                                         *)
(* The remote service (module `vip`) is the environment: each of its       *)
(* answers is an input of the action that makes the call.  A Python        *)
(* exception is modelled by its class name, "none" meaning a normal return.*)
(***************************************************************************)
EXTENDS Integers, Sequences, FiniteSets, TLC

VARIABLES
    cls,          \* class of the instance: "VipLauncher" or "VipSession"
    workflows,    \* self._workflows: workflow id -> [status, outputs]
    vipExists,    \* directories that exist on the VIP servers
    sharedInputs, \* self._vip_input_dir differs from self._vip_dir / "INPUTS"
    pc,           \* "idle", or "monitor_wait" inside monitor_workflows' loop
    last,         \* what the latest call did (remote calls made, exception, report)
    localFiles,   \* output files present under the local output directory
    sessionFile,  \* content of the session file on disk ("absent" when none)
    savedData,    \* {the data given to _save_session}, {} once another call was made
    loaded,       \* {the dictionary the latest _load_session returned}, {} when None
    localTree,    \* the local input directory: files and sub-directories
    vipTree,      \* the remote input mirror: directories and files on VIP
    syncLog,      \* one record per _upload_dir call made so far
    dac,          \* the _delete_and_check call in progress
    mkd,          \* the _mkdirs call in progress
    upl,          \* the _upload_dir call in progress, one upload at a time
    pv,           \* the path-virtualizer call: inputs and result
    props,        \* the properties set through their setters, and the latest setter call
    tar,          \* the _extract_tarball call in progress, and the directory it works in
    gi            \* get_inputs: the two sessions' properties and the latest call

lifecycleVars == <<cls, workflows, vipExists, sharedInputs, pc, last, localFiles>>
persistVars   == <<sessionFile, savedData, loaded>>
syncVars      == <<localTree, vipTree, syncLog>>
vars == <<cls, workflows, vipExists, sharedInputs, pc, last, localFiles,
          sessionFile, savedData, loaded, localTree, vipTree, syncLog, dac, mkd, upl, pv, props, tar, gi>>

-----------------------------------------------------------------------------
(* Bounds of the model *)

\* Largest number of workflows the registry holds.
MaxWorkflows == 2

-----------------------------------------------------------------------------
(* Python plumbing: attribute lookup, call binding, try/finally *)

\* Class attributes of VipLauncher and VipSession.
ClassAttributes ==
    {"__name__", "_NAME_PREFIX", "_PIPELINES", "_DISTANT_LOCATION", "_PROPERTIES",
     "_VERBOSE", "_SERVER_DEFAULT_PATH", "_LOCAL_DEFAULT_PATH"}

\* self.<name>, for a name no instance holds: AttributeError unless the class has it.
GetAttrRaises(name) == IF name \in ClassAttributes THEN "none" ELSE "AttributeError"

\* Binding the arguments `given` to a signature: a missing required parameter
\* or an unexpected keyword is a TypeError.
CallRaises(required, accepted, given) ==
    IF (required \subseteq given) /\ (given \subseteq accepted)
    THEN "none" ELSE "TypeError"

\* try: body / finally: handler.  An exception of the finally clause replaces
\* the one in flight.
Finally(bodyRaised, finallyRaised) ==
    IF finallyRaised # "none" THEN finallyRaised ELSE bodyRaised

\* def _save_session(self, session_data: dict)
SaveSessionRequired == {"session_data"}
SaveSessionAccepted == {"session_data"}
\* def _load_session(self)
LoadSessionAccepted == {}
\* def _execution_report(self, verbose=True)
ExecutionReportAccepted == {"verbose"}

-----------------------------------------------------------------------------
(* Remote paths (PurePosixPath), as sequences of their parts *)

Parent(p) == IF Len(p) = 0 THEN p ELSE SubSeq(p, 1, Len(p) - 1)

Prefixes(p) == {SubSeq(p, 1, i) : i \in 0..Len(p)}

IsUnder(p, root) == Len(p) >= Len(root) /\ SubSeq(p, 1, Len(root)) = root

ServerDefaultPath == <<"vip", "Home", "API">>
SessionName == "s"
\* self._vip_dir
VipDir == ServerDefaultPath \o <<SessionName>>
\* default self._vip_input_dir and self._vip_output_dir
VipInputDir  == VipDir \o <<"INPUTS">>
VipOutputDir == VipDir \o <<"OUTPUTS">>
\* the directory an execution writes its results to, and a result file in it
ResultDir  == VipOutputDir \o <<"run">>

\* Directories that always exist on the server.
BaseDirs == Prefixes(ServerDefaultPath)

\* All directories of the model that are `root` or lie under it, removed from fs.
RemoveTree(fs, root) == {p \in fs : ~IsUnder(p, root)}

\* _mkdirs: the first non-existent node of `path` (walks up while the parent is missing).
RECURSIVE FirstNode(_, _)
FirstNode(path, fs) ==
    IF Parent(path) \in fs THEN path ELSE FirstNode(Parent(path), fs)

\* _mkdirs: the directories it creates, in creation order (none when `path` exists).
MkdirsCreated(path, fs) ==
    IF path \in fs THEN <<>>
    ELSE LET first == FirstNode(path, fs)
         IN  [i \in 1..(Len(path) - Len(first) + 1) |-> SubSeq(path, 1, Len(first) + i - 1)]

\* _mkdirs: its return value, the newly created part of `path` ("" when `path` exists).
MkdirsReturn(path, fs) ==
    IF path \in fs THEN <<>>
    ELSE SubSeq(path, Len(FirstNode(path, fs)), Len(path))

SeqRange(s) == {s[i] : i \in 1..Len(s)}

-----------------------------------------------------------------------------
(* Workflow registry *)

\* The output file of execution w, as _get_exec_infos keeps it: a file of
\* ResultDir named after the execution.
Output(w) == [path |-> [parent |-> ResultDir, name |-> w], isDirectory |-> FALSE]

\* What the service may answer about an execution (vip.execution_info and
\* vip.get_exec_results): still running, over with no output, over with one.
ReplyKinds == {"Running", "FinishedEmpty", "FinishedOutput"}

Reply(w, kind) ==
    CASE kind = "Running"        -> [status |-> "Running",  outputs |-> <<>>]
      [] kind = "FinishedEmpty"  -> [status |-> "Finished", outputs |-> <<>>]
      [] kind = "FinishedOutput" -> [status |-> "Finished", outputs |-> <<Output(w)>>]

\* The answers to one round of requests about the executions of `ids`.
Answers(ids) == [ids -> ReplyKinds]

\* _get_exec_infos: the record built from the service's answer.
GetExecInfos(reply) == [status |-> reply.status, outputs |-> reply.outputs]

\* Mutant of StillRunning: no record is counted.
StillRunningNone(wfs) == 0

\* _still_running: the number of records whose status is "Running".
StillRunning(wfs) == Cardinality({w \in DOMAIN wfs : wfs[w].status = "Running"})

\* Mutant of NeedsUpdate: the test on "Removed" is lost.
NeedsUpdateAlways(wfs, w) == w \in DOMAIN wfs

\* The records _update_workflows asks the service about.
NeedsUpdate(wfs, w) == wfs[w].status # "Removed"

Queried(wfs) == {w \in DOMAIN wfs : NeedsUpdate(wfs, w)}

\* VipLauncher._update_workflows.  The registry is browsed in insertion order
\* (increasing id); `rep` is the service's answer per execution and `failAt`
\* the execution whose request fails (0: none), which ends the browse.
UpdateWorkflows(wfs, rep, failAt) ==
    [w \in DOMAIN wfs |->
        IF NeedsUpdate(wfs, w) /\ (failAt = 0 \/ w < failAt)
        THEN GetExecInfos(Reply(w, rep[w]))
        ELSE wfs[w]]

\* VipSession._update_workflows: the parent's, then self._save_session(display=False).
UpdateRaises(c, failAt, save_session) ==
    IF failAt # 0 THEN "RuntimeError"
    ELSE IF c = "VipSession" /\ save_session
         THEN CallRaises(SaveSessionRequired, SaveSessionAccepted, {"display"})
         ELSE "none"

\* Mutant of ExecutionReport: the report has an entry for every status.
ExecutionReportOfAll(wfs) ==
    [s \in {"Running", "Finished", "Removed"} |->
        SelectSeq([i \in 1..Cardinality(DOMAIN wfs) |-> i],
                  LAMBDA w : wfs[w].status = s)]

\* _execution_report: status -> list of the workflow ids holding it.
ExecutionReport(wfs) ==
    [s \in {wfs[w].status : w \in DOMAIN wfs} |->
        SelectSeq([i \in 1..Cardinality(DOMAIN wfs) |-> i],
                  LAMBDA w : wfs[w].status = s)]

NoReport == <<>>

\* The footprint of a call: the exception it ends with, the stage it reached,
\* its argument, the requests it sent to the service and the report it built;
\* for a finish that follows a finish, how the deletion of that one ended;
\* for a download, the records whose output file it asked the service for;
\* for a finish, the records it asked the service about.
NoCall ==
    [op |-> "none", raised |-> "none", stage |-> "none", arg |-> "none",
     starts |-> 0, deleted |-> {}, downloads |-> 0, reported |-> FALSE, report |-> NoReport,
     slept |-> 0, warned |-> FALSE, after |-> "none", fetched |-> {},
     asked |-> {}]

-----------------------------------------------------------------------------
(* The main properties *)

\* The properties that have a setter, per class.
LauncherProperties ==
    {"session_name", "pipeline_id", "input_settings", "vip_output_dir", "workflows"}
PropertyNames(c) ==
    IF c = "VipSession" THEN LauncherProperties \cup {"local_input_dir", "vip_input_dir", "local_output_dir"}
    ELSE LauncherProperties

\* The properties whose value is a path of the local machine.
LocalPathProperties == {"local_input_dir", "local_output_dir"}

\* A value given to a setter: of the type the setter expects, or not.
Str(text) == [type |-> "expected", text |-> text]
WrongType == [type |-> "other", text |-> "5"]

\* No setter was called yet.
NoSetterCall == [prop |-> "none", arg |-> WrongType, before |-> {}, raised |-> "none"]

-----------------------------------------------------------------------------
(* launch_pipeline *)

\* The exception raised where the parameter checks of launch_pipeline stop the
\* call ("none": they pass).
StopRaises(stop) ==
    CASE stop = "none"           -> "none"
      [] stop = "pipeline_id"    -> "ValueError"
      [] stop = "mkdirs"         -> "RuntimeError"
      [] stop = "input_settings" -> "FileNotFoundError"

\* The properties launch_pipeline assigns from its arguments, in this order,
\* and the value the model gives each.
LaunchProperties == <<"pipeline_id", "vip_output_dir", "input_settings">>
LaunchValue(prop) == IF prop = "vip_output_dir" THEN Str("OUTPUTS") ELSE Str("a")

\* The properties the call has assigned when it stops: none when the setter of
\* pipeline_id raises, the first two when _mkdirs fails, all three afterwards.
LaunchAssigns(stop) ==
    CASE stop = "pipeline_id" -> {}
      [] stop = "mkdirs"      -> {"pipeline_id", "vip_output_dir"}
      [] OTHER                -> {"pipeline_id", "vip_output_dir", "input_settings"}

\* Mutant of LaunchSets: the call assigns nothing.
LaunchSetsNothing(values, stop) == values

\* The properties after these assignments, the arguments of the call being
\* the values the properties hold when they are set already.
LaunchSets(values, stop) ==
    [q \in DOMAIN values |->
        IF q \in LaunchAssigns(stop) /\ values[q] = {} THEN {LaunchValue(q)} ELSE values[q]]

\* The identifier vip.init_exec returns: the service numbers its executions,
\* so it is one the registry does not hold yet.
NewId(wfs) == Cardinality(DOMAIN wfs) + 1

\* Create or update the workflow entry.
RecordExec(wfs, wid, infos) ==
    [w \in DOMAIN wfs \cup {wid} |-> IF w = wid THEN infos ELSE wfs[w]]

\* The loop of launch_pipeline over the runs the service accepted and described:
\* kinds[i] chooses the answer of _get_exec_infos for the i-th run.
RECURSIVE LaunchRuns(_, _, _)
LaunchRuns(wfs, kinds, i) ==
    IF i > Len(kinds) THEN wfs
    ELSE LET wid == NewId(wfs)
         IN  LaunchRuns(RecordExec(wfs, wid, GetExecInfos(Reply(wid, kinds[i]))), kinds, i + 1)

\* Mutant of StartRequests: the loop runs once more than asked.
StartRequestsOneMore(n, k, fail) == IF fail = "none" THEN n + 1 ELSE k + 1

\* The number of start requests (vip.init_exec) of a launch asked for n runs
\* whose (k+1)-th iteration fails (`fail`: "none", "start" or "info").
StartRequests(n, k, fail) == IF fail = "none" THEN n ELSE k + 1

\* VipSession.launch_pipeline wraps the parent's in try/finally: self._save_session().
LaunchRaises(c, bodyRaised) ==
    IF c = "VipSession"
    THEN Finally(bodyRaised, CallRaises(SaveSessionRequired, SaveSessionAccepted, {}))
    ELSE bodyRaised

Launch(n, stop, k, fail, kinds) ==
    /\ pc = "idle"
    /\ stop = "mkdirs" => VipOutputDir \notin vipExists
    /\ LET checked == StopRaises(stop) = "none"
           body == IF ~checked THEN StopRaises(stop)
                   ELSE IF fail # "none" THEN "RuntimeError" ELSE "none"
           made == IF stop \in {"pipeline_id", "mkdirs"} THEN {}
                   ELSE SeqRange(MkdirsCreated(VipOutputDir, vipExists))
       IN  /\ workflows' = IF checked THEN LaunchRuns(workflows, kinds, 1) ELSE workflows
           /\ vipExists' = vipExists \cup made
           /\ props' = [props EXCEPT !.value = LaunchSets(props.value, stop)]
           /\ last' = [NoCall EXCEPT
                         !.op = "launch",
                         !.raised = LaunchRaises(cls, body),
                         !.stage = IF ~checked THEN "checks"
                                   ELSE IF fail = "none" THEN "done" ELSE fail,
                         !.arg = [nb_runs |-> n, stop |-> stop,
                                  allRunning |-> SeqRange(kinds) \subseteq {"Running"}],
                         !.starts = IF checked THEN StartRequests(n, k, fail) ELSE 0]
    /\ UNCHANGED <<cls, sharedInputs, pc, localFiles>>

-----------------------------------------------------------------------------
(* monitor_workflows *)

\* One refresh of the registry and what monitor_workflows does next.
MonitorRefresh(rep, failAt) ==
    LET wf1 == UpdateWorkflows(workflows, rep, failAt)
        r   == UpdateRaises(cls, failAt, TRUE)
        \* time.sleep(refresh_time): not before the first refresh of a call,
        \* once before each refresh of the standby loop
        nap == IF pc = "monitor_wait" THEN 1 ELSE 0
    IN  /\ workflows' = wf1
        /\ IF r # "none"
           THEN /\ pc' = "idle"
                /\ last' = [NoCall EXCEPT !.op = "monitor", !.raised = r, !.slept = nap,
                                            !.stage = IF failAt # 0 THEN "refresh" ELSE "save"]
           ELSE /\ pc' = IF StillRunning(wf1) > 0 THEN "monitor_wait" ELSE "idle"
                /\ last' = [NoCall EXCEPT !.op = "monitor", !.stage = "done", !.slept = nap,
                                            !.reported = TRUE, !.report = ExecutionReport(wf1)]

\* The call, up to its first wait (or its return).
MonitorBegin(rep, failAt) ==
    /\ pc = "idle"
    /\ IF workflows = <<>>
       THEN /\ last' = [NoCall EXCEPT !.op = "monitor", !.stage = "empty"]
            /\ UNCHANGED <<workflows, pc>>
       ELSE MonitorRefresh(rep, failAt)
    /\ UNCHANGED <<cls, vipExists, sharedInputs, localFiles>>

\* One round of the standby loop: time.sleep(refresh_time), then a refresh.
MonitorRound(rep, failAt) ==
    /\ pc = "monitor_wait"
    /\ MonitorRefresh(rep, failAt)
    /\ UNCHANGED <<cls, vipExists, sharedInputs, localFiles>>

-----------------------------------------------------------------------------
(* finish *)

\* _path_to_delete: vip_output_dir for a VipLauncher, _vip_dir for a VipSession.
PathToDelete(c) == IF c = "VipSession" THEN VipDir ELSE VipOutputDir

\* The last loop of finish: a record whose output list is empty, or whose
\* output directory does not exist any more, gets status "Removed".
IsRemovedNow(wf, fs) ==
    \/ wf.outputs = <<>>
    \/ wf.outputs[1].path.parent \notin fs

\* Mutant of Reclassify: the statuses are left as they are.
ReclassifyNothing(wfs, fs) == wfs

Reclassify(wfs, fs) ==
    [w \in DOMAIN wfs |->
        IF IsRemovedNow(wfs[w], fs) THEN [wfs[w] EXCEPT !.status = "Removed"] ELSE wfs[w]]

\* Mutant of NeedsDelete: the existence of the path is not checked.
NeedsDeleteAlways(path, fs) == TRUE

\* A path to delete is deleted when it exists (`if not self._exists(path, location)`).
NeedsDelete(path, fs) == path \in fs

\* The report finish shows when it gives up: computed only when verbose.
BlockedReport(verbose, wfs) == IF verbose THEN ExecutionReport(wfs) ELSE NoReport

\* `rep` is what the service would answer about each record that is not
\* Removed when finish is called; finish asks only when a record is Running.
Finish(verbose, rep, failAt, del, otherInputs) ==
    /\ pc = "idle"
    /\ LET running0 == StillRunning(workflows) > 0
           wf1 == IF running0 THEN UpdateWorkflows(workflows, rep, failAt) ELSE workflows
           r1  == IF running0 THEN UpdateRaises(cls, failAt, TRUE) ELSE "none"
           blocked == r1 = "none" /\ running0 /\ StillRunning(wf1) > 0
           cleanup == r1 = "none" /\ ~blocked
           target  == PathToDelete(cls)
           deletes == cleanup /\ NeedsDelete(target, vipExists)
           r2  == IF deletes /\ del = "refused" THEN "RuntimeError" ELSE r1
           fs2 == IF deletes /\ del \in {"confirmed", "timeout_gone"}
                  THEN RemoveTree(vipExists, target) ELSE vipExists
           wf2 == IF cleanup /\ r2 = "none" THEN Reclassify(wf1, fs2) ELSE wf1
           \* VipSession.finish, after the parent's returned: the warning about
           \* inputs that belong to another session reads self._VIP_PORTAL.
           r3  == IF r2 = "none" /\ cls = "VipSession" /\ sharedInputs /\ otherInputs /\ verbose
                  THEN GetAttrRaises("_VIP_PORTAL") ELSE r2
       IN  /\ ~running0 => failAt = 0
           /\ ~deletes => del = "confirmed"
           /\ workflows' = wf2
           /\ vipExists' = fs2
           /\ last' = [NoCall EXCEPT
                         !.op = "finish",
                         !.raised = r3,
                         !.stage = IF running0 /\ failAt # 0 THEN "refresh"
                                   ELSE IF r1 # "none" THEN "save"
                                   ELSE IF blocked THEN "blocked"
                                   ELSE IF r2 # "none" THEN "delete" ELSE "done",
                         !.asked = IF running0 THEN Queried(workflows) ELSE {},
                         !.arg = [verbose |-> verbose,
                                  serviceRunning |-> \E w \in DOMAIN rep : rep[w] = "Running",
                                  outcome |-> IF deletes THEN del ELSE "none"],
                         !.deleted = IF deletes THEN {target} ELSE {},
                         !.after = IF last.op = "finish" /\ last.stage = "done"
                                   THEN last.arg.outcome ELSE "none",
                         !.warned = deletes /\ verbose
                                    /\ del \in {"timeout_present", "timeout_gone"},
                         !.reported = blocked /\ verbose,
                         !.report = IF blocked THEN BlockedReport(verbose, wf1) ELSE NoReport]
    /\ UNCHANGED <<cls, sharedInputs, pc, localFiles>>

-----------------------------------------------------------------------------
(* download_outputs (VipSession) *)

\* download_outputs returns at once when the session launched nothing.
NothingLaunched(wfs) == wfs = <<>>

\* What stops download_outputs between the refresh and the download loop:
\* the call self._execution_report(display=False), then the assertion that
\* 'Removed' is not in get_status.
DownloadPrecheck(get_status) ==
    IF CallRaises({}, ExecutionReportAccepted, {"display"}) # "none"
    THEN CallRaises({}, ExecutionReportAccepted, {"display"})
    ELSE IF "Removed" \in get_status THEN "AssertionError" ELSE "none"

\* The workflows whose output file the download loop asks the service for:
\* status in get_status, an output list that is not empty, no local copy yet.
ToDownload(wfs, get_status, local) ==
    {w \in DOMAIN wfs : /\ wfs[w].status \in get_status
                        /\ wfs[w].outputs # <<>>
                        /\ wfs[w].outputs[1].path \notin local}

\* Mutant of DownloadStopped: nothing stops the call before the download loop.
DownloadNeverStopped(get_status, failAt) == "none"

\* The exception that ends download_outputs before its download loop, if any.
DownloadStopped(get_status, failAt) ==
    IF UpdateRaises(cls, failAt, FALSE) # "none"
    THEN UpdateRaises(cls, failAt, FALSE)
    ELSE DownloadPrecheck(get_status)

\* The output files the call asks the service for (vip.download).
DownloadPlan(get_status, rep, failAt) ==
    IF NothingLaunched(workflows) \/ DownloadStopped(get_status, failAt) # "none"
    THEN {}
    ELSE ToDownload(UpdateWorkflows(workflows, rep, failAt), get_status, localFiles)

\* okSet: the downloads that succeed.
DownloadOutputs(get_status, rep, failAt, okSet) ==
    /\ pc = "idle"
    /\ cls = "VipSession"
    /\ okSet \subseteq DownloadPlan(get_status, rep, failAt)
    /\ IF NothingLaunched(workflows)
       THEN /\ last' = [NoCall EXCEPT !.op = "download", !.stage = "empty",
                                       !.arg = [get_status |-> get_status]]
            /\ UNCHANGED <<workflows, localFiles>>
       ELSE LET wf1 == UpdateWorkflows(workflows, rep, failAt)
                r   == DownloadStopped(get_status, failAt)
            IN  /\ workflows' = wf1
                /\ localFiles' = localFiles \cup {wf1[w].outputs[1].path : w \in okSet}
                /\ last' = [NoCall EXCEPT
                              !.op = "download",
                              !.raised = r,
                              !.stage = IF failAt # 0 THEN "refresh"
                                        ELSE IF r # "none" THEN "checks" ELSE "done",
                              !.arg = [get_status |-> get_status],
                              !.downloads = Cardinality(DownloadPlan(get_status, rep, failAt)),
                              !.fetched = DownloadPlan(get_status, rep, failAt),
                              !.reported = r = "none",
                              !.report = IF r = "none" THEN ExecutionReport(wf1) ELSE NoReport]
    /\ UNCHANGED <<cls, vipExists, sharedInputs, pc>>

-----------------------------------------------------------------------------
(* _save_session and _load_session (VipSession) *)

LocalOutputDir == <<"vip_outputs", SessionName>>

\* The properties of the session (_PROPERTIES), as their getters return them.
SessionProperties ==
    [session_name     |-> SessionName,
     local_output_dir |-> [type |-> "str", value |-> LocalOutputDir],
     vip_input_dir    |-> IF sharedInputs THEN "other" ELSE "own",
     vip_output_dir   |-> VipOutputDir,
     workflows        |-> workflows]

\* json.dump then json.load of a document of strings, lists and dictionaries.
JsonDump(data) == [json |-> data]
JsonLoad(text) == text.json

\* _save_session(session_data): the file it leaves and the exception it raises.
SaveSession(session_data, file) ==
    IF GetAttrRaises("_SAVE_FILE") # "none"
    THEN [raised |-> GetAttrRaises("_SAVE_FILE"), file |-> file]
    ELSE [raised |-> "none", file |-> JsonDump(session_data)]

\* _load_session(): the dictionary it returns and the exception it raises.
LoadSession(file) ==
    IF GetAttrRaises("_SAVE_FILE") # "none"
    THEN [raised |-> GetAttrRaises("_SAVE_FILE"), data |-> {}]
    ELSE IF file = "absent"
    THEN [raised |-> "none", data |-> {}]
    ELSE [raised |-> "none",
          data |-> {[JsonLoad(file) EXCEPT
                        !.local_output_dir = [type |-> "Path", value |-> LocalOutputDir]]}]

SaveSessionCall ==
    /\ pc = "idle"
    /\ cls = "VipSession"
    /\ LET res == SaveSession(SessionProperties, sessionFile)
       IN  /\ sessionFile' = res.file
           /\ savedData' = {SessionProperties}
           /\ last' = [NoCall EXCEPT !.op = "save", !.raised = res.raised]
    /\ UNCHANGED <<cls, workflows, vipExists, sharedInputs, pc, localFiles, loaded>>

LoadSessionCall ==
    /\ pc = "idle"
    /\ cls = "VipSession"
    /\ LET res == LoadSession(sessionFile)
       IN  /\ loaded' = res.data
           /\ last' = [NoCall EXCEPT !.op = "load", !.raised = res.raised]
    /\ UNCHANGED <<cls, workflows, vipExists, sharedInputs, pc, localFiles,
                   sessionFile, savedData>>

-----------------------------------------------------------------------------
(* The session's life cycle *)

ExistingDirs ==
    {BaseDirs,
     BaseDirs \cup {VipDir},
     BaseDirs \cup {VipDir, VipOutputDir},
     BaseDirs \cup {VipDir, VipOutputDir, ResultDir}}

Idle == <<>>

\* The properties launch_pipeline deals with, after the constructor was given
\* a session name only: VipSession.__init__ sets vip_output_dir by default.
ConstructedProperties(c) ==
    [q \in SeqRange(LaunchProperties) |->
        IF q = "vip_output_dir" /\ c = "VipSession" THEN {LaunchValue(q)} ELSE {}]

Init ==
    /\ cls \in {"VipLauncher", "VipSession"}
    /\ workflows = <<>>
    /\ vipExists \in ExistingDirs
    /\ sharedInputs \in (IF cls = "VipSession" THEN BOOLEAN ELSE {FALSE})
    /\ pc = "idle"
    /\ last = NoCall
    /\ localFiles = {}
    /\ sessionFile = "absent"
    /\ savedData = {}
    /\ loaded = {}
    /\ localTree = Idle /\ vipTree = Idle /\ syncLog = Idle
    /\ dac = Idle /\ mkd = Idle /\ upl = Idle /\ tar = Idle /\ gi = Idle
    /\ pv = Idle
    /\ props = [value |-> ConstructedProperties(cls), call |-> NoSetterCall]

Refreshed == IF StillRunning(workflows) > 0 THEN Queried(workflows) ELSE {}

\* Any call but _save_session outdates the data saved last.
Outdated == savedData' = {} /\ UNCHANGED <<sessionFile, loaded>>

Next ==
    \/ \E n \in 0..(MaxWorkflows - Cardinality(DOMAIN workflows)), stop \in {"none", "pipeline_id", "mkdirs", "input_settings"} :
         \E k \in 0..n, fail \in {"none", "start", "info"} :
           \E kinds \in [1..k -> ReplyKinds] :
             /\ (fail = "none") <=> (k = n)
             /\ Launch(n, stop, k, fail, kinds)
             /\ Outdated
             /\ UNCHANGED <<syncVars, dac, mkd, upl, pv, tar, gi>>
    \/ \E rep \in Answers(Queried(workflows)), failAt \in {0} \cup Queried(workflows) :
         /\ MonitorBegin(rep, failAt)
         /\ Outdated
         /\ UNCHANGED <<syncVars, dac, mkd, upl, pv, props, tar, gi>>
    \/ \E rep \in Answers(Queried(workflows)), failAt \in {0} \cup Queried(workflows) :
         /\ MonitorRound(rep, failAt)
         /\ Outdated
         /\ UNCHANGED <<syncVars, dac, mkd, upl, pv, props, tar, gi>>
    \/ \E verbose \in BOOLEAN, rep \in Answers(Queried(workflows)), failAt \in {0} \cup Refreshed,
          del \in {"refused", "confirmed", "timeout_present", "timeout_gone"} :
         \E otherInputs \in (IF cls = "VipSession" /\ sharedInputs /\ verbose
                              THEN BOOLEAN ELSE {FALSE}) :
         /\ Finish(verbose, rep, failAt, del, otherInputs)
         /\ Outdated
         /\ UNCHANGED <<syncVars, dac, mkd, upl, pv, props, tar, gi>>
    \/ \E get_status \in {{"Finished"}, {"Removed"}, {"Finished", "Removed"}, {"Running"}}, rep \in Answers(Queried(workflows)),
          failAt \in {0} \cup Queried(workflows) :
         \E okSet \in SUBSET DownloadPlan(get_status, rep, failAt) :
           /\ DownloadOutputs(get_status, rep, failAt, okSet)
           /\ Outdated
           /\ UNCHANGED <<syncVars, dac, mkd, upl, pv, props, tar, gi>>
    \/ SaveSessionCall /\ UNCHANGED <<syncVars, dac, mkd, upl, pv, props, tar, gi>>
    \/ LoadSessionCall /\ UNCHANGED <<syncVars, dac, mkd, upl, pv, props, tar, gi>>

Spec == Init /\ [][Next]_vars

-----------------------------------------------------------------------------
(* Properties of the life cycle *)

Ids(wfs) == DOMAIN wfs

Removed(wfs) == {w \in Ids(wfs) : wfs[w].status = "Removed"}

Running(wfs) == {w \in Ids(wfs) : wfs[w].status = "Running"}

\* C1 - Monotonic removal: a record whose status is "Removed" keeps that status
\* through every step of monitor_workflows and of finish, whatever the service
\* answers about the execution.
C1_MonotonicRemoval ==
    [][last'.op \in {"monitor", "finish"} => Removed(workflows) \subseteq Removed(workflows')]_vars

\* A monitor_workflows call went through a registry that holds a Removed record
\* with outputs, next to a record the service was asked about.
C1_Witness ==
    /\ last.op = "monitor"
    /\ last.stage = "done"
    /\ \E w \in Removed(workflows) : workflows[w].outputs # <<>>
    /\ Queried(workflows) # {}

\* C4 - Session round-trip, as claimed: _load_session, called after
\* _save_session(S) with nothing in between, returns the properties of S.
C4_RoundTrip ==
    (last.op = "load" /\ savedData # {})
        => (last.raised = "none" /\ loaded = savedData)

\* C6 - Launch count: a launch_pipeline of n runs whose checks pass, against a
\* service that accepts every start and describes every execution as Running,
\* sends exactly n start requests and adds exactly n records, all Running and
\* under n distinct identifiers, the records held before being left as they were.
C6_LaunchCount ==
    [][(last'.op = "launch" /\ last'.stage = "done" /\ last'.arg.allRunning) =>
          /\ last'.starts = last'.arg.nb_runs
          /\ Ids(workflows) \subseteq Ids(workflows')
          /\ Cardinality(Ids(workflows') \ Ids(workflows)) = last'.arg.nb_runs
          /\ \A w \in Ids(workflows') \ Ids(workflows) : workflows'[w].status = "Running"
          /\ \A w \in Ids(workflows) : workflows'[w] = workflows[w]]_vars

\* A launch of at least two runs went through, each one Running.
C6_Witness ==
    /\ last.op = "launch" /\ last.stage = "done" /\ last.arg.allRunning
    /\ last.arg.nb_runs >= 2
    /\ Cardinality(Running(workflows)) >= 2

\* C7 - Launch partial failure, as claimed: when a start request fails, no
\* further one is sent (the failed one is the last), the remote service error
\* is what the call raises, and the registry holds the records it held before
\* plus one per earlier start.
C7_LaunchPartialFailure ==
    [][(last'.op = "launch" /\ last'.stage = "start") =>
          /\ last'.raised = "RuntimeError"
          /\ Ids(workflows) \subseteq Ids(workflows')
          /\ Cardinality(Ids(workflows') \ Ids(workflows)) = last'.starts - 1
          /\ \A w \in Ids(workflows) : workflows'[w] = workflows[w]]_vars

\* C8 - Finish blocked by Running, as claimed: a finish whose refresh leaves
\* some record Running deletes nothing, marks no record Removed, and returns
\* the Running records as the blocking ones.
C8_FinishBlocked ==
    [][(last'.op = "finish" /\ last'.stage \in {"save", "blocked"}
            /\ Running(workflows') # {}) =>
          /\ last'.deleted = {}
          /\ Removed(workflows') \subseteq Removed(workflows)
          /\ last'.raised = "none"
          /\ last'.reported
          /\ "Running" \in DOMAIN last'.report
          /\ SeqRange(last'.report["Running"]) = Running(workflows')]_vars

\* C9 - Download of Removed, as claimed: with "Removed" in get_status the call
\* sends no download request and returns normally, with a report.
C9_DownloadRemovedReports ==
    (last.op = "download" /\ "Removed" \in last.arg.get_status)
        => (last.downloads = 0 /\ last.raised = "none"
            /\ (workflows # <<>> => last.reported))

\* C9, amended: with "Removed" in get_status the call sends no download
\* request, whatever the registry holds, and on a registry that is not empty
\* it ends with an exception instead of a report.
C9_DownloadRemovedFails ==
    (last.op = "download" /\ "Removed" \in last.arg.get_status)
        => (last.downloads = 0
            /\ (workflows # <<>> => (last.raised # "none" /\ ~last.reported)))

\* download_outputs, asked for Removed data, met a Removed record that has
\* outputs and no local copy.
C9_Witness ==
    /\ last.op = "download" /\ "Removed" \in last.arg.get_status
    /\ last.stage = "checks"
    /\ \E w \in Removed(workflows) :
          workflows[w].outputs # <<>> /\ workflows[w].outputs[1].path \notin localFiles

\* C13 - No partial mutation, as claimed: a launch_pipeline that its parameter
\* checks stop with a validation or conflict error leaves the properties, the
\* registry and the directories of the VIP servers as they were.
C13_NoPartialMutation ==
    [][(last'.op = "launch" /\ last'.stage = "checks"
            /\ last'.arg.stop \in {"pipeline_id", "input_settings"}) =>
          /\ props'.value = props.value
          /\ workflows' = workflows
          /\ vipExists' = vipExists]_vars

\* C14 - Monitor postcondition: when monitor_workflows returns normally on a
\* registry that is not empty, no record is Running; and each refresh of its
\* standby loop comes after one sleep of refresh_time.
C14_MonitorPostcondition ==
    [][/\ (last'.op = "monitor" /\ last'.raised = "none" /\ pc' = "idle"
              /\ workflows' # <<>>) => Running(workflows') = {}
       /\ (pc = "monitor_wait" /\ last'.op = "monitor") => last'.slept = 1
       /\ (pc = "idle" /\ last'.op = "monitor") => last'.slept = 0]_vars

\* monitor_workflows returned after a round of its standby loop, with two
\* records that are over.
C14_Witness ==
    /\ last.op = "monitor" /\ last.raised = "none" /\ pc = "idle"
    /\ last.slept = 1
    /\ Cardinality(Ids(workflows)) = 2
    /\ \E w \in Ids(workflows) : workflows[w].status = "Finished"

\* C15 - Persistence after every mutation, as claimed: once launch_pipeline,
\* monitor_workflows or finish of a VipSession has returned or raised, the
\* session file holds the properties of the session as they are in memory,
\* the records that finish marked Removed included.
C15_PersistedAfterMutation ==
    (cls = "VipSession" /\ pc = "idle" /\ last.op \in {"launch", "monitor", "finish"})
        => (sessionFile # "absent" /\ JsonLoad(sessionFile) = SessionProperties)

\* C18 - Reclassification independent of deletion, as claimed: when finish
\* got past the check of the running workflows, then whatever became of the
\* deletion (confirmed, timed out or refused), every record with no output or
\* whose output directory is gone from VIP has status "Removed" at the end.
C18_ReclassifyAlways ==
    (last.op = "finish" /\ last.stage \in {"delete", "done"}) =>
        \A w \in DOMAIN workflows :
            (\/ workflows[w].outputs = <<>>
             \/ workflows[w].outputs[1].path.parent \notin vipExists)
                => workflows[w].status = "Removed"

\* C18 - Reclassification after the deletions, as the code does it: when the
\* deletion was confirmed, timed out or not needed, every record with no
\* output or whose output directory is gone from VIP has status "Removed" at
\* the end; when the service refuses the deletion, finish raises RuntimeError
\* and marks no record.
C18_ReclassifyUnlessRefused ==
    [][(last'.op = "finish") =>
          /\ (last'.stage = "done") =>
                \A w \in DOMAIN workflows' :
                    (\/ workflows'[w].outputs = <<>>
                     \/ workflows'[w].outputs[1].path.parent \notin vipExists')
                        => workflows'[w].status = "Removed"
          /\ (last'.stage = "delete") =>
                /\ last'.arg.outcome = "refused"
                /\ last'.raised = "RuntimeError"
                /\ Removed(workflows') = Removed(workflows)]_vars

\* A finish whose deletion timed out with the path still on VIP: the record
\* without output is marked, the one whose output is still there is not.
C18_Witness ==
    /\ last.op = "finish" /\ last.stage = "done"
    /\ last.arg.outcome = "timeout_present"
    /\ \E w \in DOMAIN workflows : workflows[w].status = "Removed"
    /\ \E w \in DOMAIN workflows : workflows[w].status = "Finished"

\* C19 - Deletion timeout is reported, not raised, as claimed: a finish whose
\* deletion was not confirmed within the timeout returns normally and has
\* reported the failure for the path.
C19_TimeoutReported ==
    (last.op = "finish" /\ last.arg.outcome \in {"timeout_present", "timeout_gone"})
        => (last.raised = "none" /\ last.warned)

\* C20 - Finish is safely re-invocable: finish asks the service to delete
\* nothing but the path of the session, and only when that path exists at the
\* time of the check; a finish that follows a finish whose deletion was
\* confirmed asks for no deletion and changes no record.
C20_FinishReinvocable ==
    [][(last'.op = "finish") =>
          /\ last'.deleted \subseteq ({PathToDelete(cls)} \cap vipExists)
          /\ (last.op = "finish" /\ last.stage = "done" /\ last.arg.outcome = "confirmed")
                => (last'.deleted = {} /\ workflows' = workflows)]_vars

\* A second finish, right after one whose deletion was confirmed, in a session
\* with two records that the first one marked.
C20_Witness ==
    /\ last.op = "finish" /\ last.after = "confirmed"
    /\ last.deleted = {}
    /\ PathToDelete(cls) \notin vipExists
    /\ Cardinality(Removed(workflows)) = 2

C22_FailuresCollected ==
    (last.op = "download" /\ last.stage \in {"checks", "done"}
        /\ "Removed" \notin last.arg.get_status) =>
        /\ last.raised = "none"
        /\ \A w \in DOMAIN workflows :
              (/\ workflows[w].status \in last.arg.get_status
               /\ workflows[w].outputs # <<>>
               /\ workflows[w].outputs[1].path \notin localFiles) => w \in last.fetched

\* C30 - Monitor liveness, as claimed: a refresh of monitor_workflows in
\* which no request to the service failed leaves the call polling when some
\* execution is still running, and makes it return normally when none is.
C30_MonitorLiveness ==
    [][(last'.op = "monitor" /\ last'.stage \notin {"empty", "refresh"}) =>
          /\ (Running(workflows') # {}) => pc' = "monitor_wait"
          /\ (Running(workflows') = {}) => (pc' = "idle" /\ last'.raised = "none")]_vars

\* C31 - Status report is a partition: the report a call built maps each
\* status to a list that is not empty, every identifier listed is one of the
\* registry, listed once and under the status its record holds, and every
\* identifier of the registry is listed.
C31_ReportPartition ==
    last.reported =>
        /\ \A s \in DOMAIN last.report :
              /\ Len(last.report[s]) > 0
              /\ \A i \in 1..Len(last.report[s]) :
                    /\ last.report[s][i] \in DOMAIN workflows
                    /\ workflows[last.report[s][i]].status = s
                    /\ \A j \in 1..Len(last.report[s]) :
                          last.report[s][j] = last.report[s][i] => j = i
        /\ \A w \in DOMAIN workflows :
              /\ workflows[w].status \in DOMAIN last.report
              /\ \E i \in 1..Len(last.report[workflows[w].status]) :
                    last.report[workflows[w].status][i] = w

\* A report on two workflows, one still running and one over.
C31_Witness ==
    /\ last.reported
    /\ DOMAIN last.report = {"Running", "Finished"}
    /\ Cardinality(DOMAIN workflows) = 2

C33_PreconditionsBeforeStart ==
    [][(last'.op = "launch") =>
          /\ (last'.starts > 0 \/ last'.stage # "checks") =>
                /\ last'.arg.stop = "none"
                /\ props'.value["pipeline_id"] # {}
                /\ props'.value["input_settings"] # {}
                /\ VipOutputDir \in vipExists'
          /\ (last'.stage = "checks") =>
                /\ last'.starts = 0
                /\ workflows' = workflows]_vars

\* A launch whose input settings fail their check after the output directory was
\* created: no start request, the registry of one workflow untouched.
C33_Witness ==
    /\ last.op = "launch" /\ last.stage = "checks" /\ last.arg.stop = "input_settings"
    /\ last.arg.nb_runs > 0 /\ last.starts = 0
    /\ VipOutputDir \in vipExists
    /\ Cardinality(DOMAIN workflows) = 1

\* C34 - No unrecorded execution, as claimed: when launch_pipeline returns or
\* raises, the registry holds one new record for every start request the
\* service accepted during the call, also when a later remote call failed.
C34_NoUnrecordedExecution ==
    [][(last'.op = "launch") =>
          Cardinality(Ids(workflows') \ Ids(workflows))
              = IF last'.stage = "start" THEN last'.starts - 1 ELSE last'.starts]_vars

-----------------------------------------------------------------------------
(* _upload_dir (VipSession): cloning the local input directory on VIP *)

\* Names of the files and of the sub-directory the local input directory may hold.
LocalNames == {"a", "b"}
SubName == "sub"

\* The local input directories of the model; the first one does not exist.
\* Local paths are written relatively to the local input directory (<<>>).
LocalTrees ==
    {t \in [dirs : {{}, {<<>>}, {<<>>, <<SubName>>}}, files : SUBSET ({<<n>> : n \in LocalNames}
                                          \cup {<<SubName, n>> : n \in LocalNames})] :
        \A f \in t.files : Parent(f) \in t.dirs}

\* The input directory on VIP, before the first call: the directories that
\* exist and the files they hold already.
VipTrees ==
    {v \in [dirs  : {BaseDirs, BaseDirs \cup {VipDir}, BaseDirs \cup {VipDir, VipInputDir},
                      BaseDirs \cup {VipDir, VipInputDir, VipInputDir \o <<SubName>>}},
            files : SUBSET {VipInputDir \o <<"a">>, VipInputDir \o <<SubName, "a">>}] :
        \A f \in v.files : Parent(f) \in v.dirs}

\* local_path.iterdir(), the elements that are files / that are directories.
IterFiles(tree, rel) == {f \in tree.files : Parent(f) = rel}
IterDirs(tree, rel)  == {d \in tree.dirs : d # rel /\ Parent(d) = rel}

\* vip.list_elements(vip_path): the names of what the directory holds.
ListElements(vt, dir) ==
    {q[Len(q)] : q \in {e \in vt.dirs \cup vt.files : Len(e) > 0 /\ Parent(e) = dir}}

\* Mutant of Scans: the distant directory is scanned even when just created.
ScansAlways(created) == TRUE

\* The distant directory is scanned when _mkdirs returned "" (it existed).
Scans(created) == created = <<>>

\* Mutant of FilesToUpload: the scan of the distant directory is not used.
FilesToUploadAll(files, created, vipNames) == files

\* files_to_upload: every local file when the distant directory was created,
\* else the local files whose name the distant directory does not hold.
FilesToUpload(files, created, vipNames) ==
    IF created # <<>> THEN files
    ELSE {f \in files : f[Len(f)] \notin vipNames}

\* Mutant of Failures: the list of the latest directory replaces the list so far.
FailuresOfLatest(sofar, todo, ok) == todo \ ok

\* failures: the files whose upload returned False are appended to the list,
\* and the lists of the sub-directories are concatenated to it.
Failures(sofar, todo, ok) == sofar \cup (todo \ ok)

\* The distant tree a call starts from, and what the call did so far: nothing.
StartSync(vt) ==
    [vip |-> vt, listed |-> {}, created |-> {}, uploads |-> {}, failures |-> {},
     raised |-> "none"]

\* _upload_dir(local_path, vip_path) for the local directory `rel` and its
\* distant clone VipInputDir/rel.  `st` is the distant tree (st.vip) and what
\* the call did so far; `ok` are the files whose upload succeeds, `refused` the
\* directories vip.create_dir refuses to make.
\* Mutant of UploadSubdirs: the sub-directories are not visited.
UploadSubdirsNone(subdirs, tree, st, ok, refused) == st

RECURSIVE UploadDir(_, _, _, _, _)
RECURSIVE UploadSubdirs(_, _, _, _, _)
UploadDir(rel, tree, st, ok, refused) ==
    IF st.raised # "none" THEN st
    ELSE IF rel \notin tree.dirs THEN [st EXCEPT !.raised = "AssertionError"]
    ELSE
      LET path    == VipInputDir \o rel
          toMake  == MkdirsCreated(path, st.vip.dirs)
          made    == {toMake[i] : i \in {j \in 1..Len(toMake) :
                                           \A h \in 1..j : toMake[h] \notin refused}}
          created == MkdirsReturn(path, st.vip.dirs)
          dirs1   == st.vip.dirs \cup made
      IN  IF SeqRange(toMake) \cap refused # {}
          THEN [st EXCEPT !.vip.dirs = dirs1, !.created = @ \cup made,
                          !.raised = "AssertionError"]
          ELSE
            LET names == ListElements([st.vip EXCEPT !.dirs = dirs1], path)
                todo  == FilesToUpload(IterFiles(tree, rel), created, names)
                st1   == [st EXCEPT
                            !.vip.dirs  = dirs1,
                            !.vip.files = @ \cup {VipInputDir \o f : f \in todo \cap ok},
                            !.created   = @ \cup made,
                            !.listed    = @ \cup (IF Scans(created) THEN {path} ELSE {}),
                            !.uploads   = @ \cup todo,
                            !.failures  = Failures(@, todo, ok)]
            IN  UploadSubdirs(IterDirs(tree, rel), tree, st1, ok, refused)

\* The recursion of _upload_dir over the sub-directories.
UploadSubdirs(subdirs, tree, st, ok, refused) ==
    IF subdirs = {} THEN st
    ELSE LET d == CHOOSE x \in subdirs : TRUE
         IN  UploadSubdirs(subdirs \ {d}, tree, UploadDir(d, tree, st, ok, refused), ok, refused)

\* One call _upload_dir(local_input_dir, vip_input_dir).
UploadDirCall(ok, refused) ==
    LET st == UploadDir(<<>>, localTree, StartSync(vipTree), ok, refused)
        log == Append(syncLog,
                      [listed |-> st.listed, created |-> st.created,
                       rootFiles |-> IterFiles(localTree, <<>>),
                       uploads |-> st.uploads, failures |-> st.failures,
                       raised |-> st.raised])
    IN  /\ vipTree' = st.vip
        \* the two latest calls
        /\ syncLog' = IF Len(log) > 2 THEN Tail(log) ELSE log
        /\ UNCHANGED localTree

\* The variables of the life cycle, when no call of it is made.
LifecycleIdle ==
    /\ cls = "VipSession" /\ workflows = <<>> /\ vipExists = BaseDirs
    /\ sharedInputs = FALSE /\ pc = "idle" /\ last = NoCall /\ localFiles = {}
    /\ sessionFile = "absent" /\ savedData = {} /\ loaded = {}

InitSync ==
    /\ LifecycleIdle
    /\ localTree \in LocalTrees
    /\ vipTree \in VipTrees
    /\ syncLog = <<>>
    /\ dac = Idle /\ mkd = Idle /\ upl = Idle /\ tar = Idle /\ gi = Idle
    /\ pv = Idle
    /\ props = Idle

NextSync ==
    \E ok \in SUBSET localTree.files,
       refused \in {{}} \cup {{d} : d \in {VipDir, VipInputDir, VipInputDir \o <<SubName>>}} :
      /\ UploadDirCall(ok, refused)
      /\ UNCHANGED <<lifecycleVars, persistVars, dac, mkd, upl, pv, props, tar, gi>>

SpecSync == InitSync /\ [][NextSync]_vars

-----------------------------------------------------------------------------
(* Properties of _upload_dir.  The local input directory never changes in
   SpecSync, and nothing but _upload_dir changes its distant clone. *)

\* C2 - Idempotent sync, as claimed: the second of two calls in a row uploads
\* nothing and returns an empty list of failures, whatever list of failures the
\* first call returned.
C2_IdempotentSync ==
    (Len(syncLog) = 2 /\ syncLog[1].raised = "none") =>
        (syncLog[2].uploads = {} /\ syncLog[2].failures = {} /\ syncLog[2].raised = "none")

\* C2, amended: when the first of two calls in a row returned an empty list of
\* failures, the second requests no upload and returns an empty list too.
C2_IdempotentAfterSuccess ==
    (Len(syncLog) = 2 /\ syncLog[1].raised = "none" /\ syncLog[1].failures = {}) =>
        (syncLog[2].uploads = {} /\ syncLog[2].failures = {} /\ syncLog[2].raised = "none")

\* Two calls in a row, the first of which uploaded files of the directory and
\* of its sub-directory without a failure, the second of which scanned both.
C2_Witness ==
    /\ Len(syncLog) = 2
    /\ syncLog[1].raised = "none" /\ syncLog[1].failures = {}
    /\ \E f, g \in syncLog[1].uploads : Len(f) = 1 /\ Len(g) = 2
    /\ syncLog[2].listed = {VipInputDir, VipInputDir \o <<SubName>>}

\* C10 - Sync onto a fresh root: a call that had to create the distant root
\* does not list that root and requests the upload of every local file that
\* lies directly in the local root.
C10_FreshRoot ==
    \A i \in 1..Len(syncLog) :
        VipInputDir \in syncLog[i].created =>
            /\ VipInputDir \notin syncLog[i].listed
            /\ syncLog[i].rootFiles \subseteq syncLog[i].uploads

\* A call created the distant root and found two files in the local one.
C10_Witness ==
    \E i \in 1..Len(syncLog) :
        /\ VipInputDir \in syncLog[i].created /\ syncLog[i].raised = "none"
        /\ Cardinality(syncLog[i].rootFiles) = 2
        /\ syncLog[i].failures # {}

\* C23 - Sync failures are collected, not fatal: a call that returns has
\* requested the upload of every local file of the whole tree that the input
\* directory on VIP did not hold, whatever uploads failed before, and the list
\* it returns holds exactly the files whose upload failed (they are not on VIP
\* afterwards).
C23_SyncFailuresCollected ==
    [][(syncLog' # syncLog /\ syncLog'[Len(syncLog')].raised = "none") =>
          LET c == syncLog'[Len(syncLog')]
          IN  /\ c.uploads = {f \in localTree.files : VipInputDir \o f \notin vipTree.files}
              /\ c.failures = {f \in c.uploads : VipInputDir \o f \notin vipTree'.files}]_vars

\* A call in which an upload failed in the root, and after it one upload
\* failed and another succeeded in the sub-directory.
C23_Witness ==
    \E i \in 1..Len(syncLog) :
        /\ syncLog[i].raised = "none"
        /\ \E f, g \in syncLog[i].failures : Len(f) = 1 /\ Len(g) = 2
        /\ \E h \in syncLog[i].uploads \ syncLog[i].failures : Len(h) = 2

\* C27 - Name-only diff on an existing root: for a local directory whose
\* clone on VIP existed before the call, the uploads requested from that
\* directory are exactly its files whose name no element of the clone bore;
\* a file whose name the clone held is not transferred.
C27_NameOnlyDiff ==
    [][(syncLog' # syncLog) =>
          LET c == syncLog'[Len(syncLog')]
          IN  \A d \in localTree.dirs :
                (VipInputDir \o d \in vipTree.dirs) =>
                    {f \in c.uploads : Parent(f) = d}
                      = {f \in localTree.files :
                            /\ Parent(f) = d
                            /\ \A e \in vipTree.dirs \cup vipTree.files :
                                  (Len(e) > 0 /\ Parent(e) = VipInputDir \o d)
                                      => e[Len(e)] # f[Len(f)]}]_vars

\* A call on a root that existed and held "a" already, the local root holding
\* "a" and "b": "b" alone was uploaded from the root.
C27_Witness ==
    /\ Len(syncLog) = 1
    /\ syncLog[1].created = {}
    /\ VipInputDir \in syncLog[1].listed
    /\ syncLog[1].rootFiles = {<<"a">>, <<"b">>}
    /\ {f \in syncLog[1].uploads : Len(f) = 1} = {<<"b">>}
    /\ syncLog[1].failures = {}

\* C28 - Mirror completeness: after a call that returned, every directory of
\* the local tree has its clone on VIP, whatever uploads failed; when no upload
\* failed either, every local file has an element of its name in the clone of
\* its directory.
C28_MirrorComplete ==
    (Len(syncLog) > 0 /\ syncLog[Len(syncLog)].raised = "none") =>
        /\ \A d \in localTree.dirs : VipInputDir \o d \in vipTree.dirs
        /\ (syncLog[Len(syncLog)].failures = {}) =>
              \A f \in localTree.files : VipInputDir \o f \in vipTree.files \cup vipTree.dirs

\* A first call had an upload fail in the root and still created the clone of
\* the sub-directory; the next one had no failure and left every file on VIP.
C28_Witness ==
    /\ Len(syncLog) = 2
    /\ syncLog[1].raised = "none" /\ syncLog[2].raised = "none"
    /\ \E f \in syncLog[1].failures : Len(f) = 1
    /\ VipInputDir \o <<SubName>> \in syncLog[1].created
    /\ \E g \in syncLog[1].uploads \ syncLog[1].failures : Len(g) = 2
    /\ syncLog[2].uploads # {} /\ syncLog[2].failures = {}
    /\ \A f \in localTree.files : VipInputDir \o f \in vipTree.files

-----------------------------------------------------------------------------
(* _delete_and_check (VipLauncher): delete a path, then wait until it is gone *)

\* `timeout = 300`, the value the method gives `timeout` after the deletion.
HardTimeout == 300

\* `time.sleep(2)`, the time between two checks of the path.
PollInterval == 2

\* The timeout the standby loop compares the elapsed time with.
EffectiveTimeout(timeout) == HardTimeout

NoDelete ==
    [pc |-> "idle", timeout |-> 0, t |-> 0, absentAt |-> -1, result |-> FALSE,
     raised |-> "none"]

\* The call, up to the standby loop: _delete_path raises RuntimeError when
\* vip.delete_path answers False (`done`), else the clock starts.
DeleteAndCheck(timeout, done) ==
    /\ dac.pc = "idle"
    /\ dac' = IF done
              THEN [NoDelete EXCEPT !.pc = "standby", !.timeout = timeout]
              ELSE [NoDelete EXCEPT !.pc = "returned", !.timeout = timeout,
                                    !.raised = "RuntimeError"]

\* One evaluation of the loop condition `(t < timeout) and cls._exists(path)`,
\* `present` being the answer of the service when it is asked: either one more
\* sleep, or the return of `t < timeout`.
DeleteStandby(present) ==
    /\ dac.pc = "standby"
    /\ LET inTime == dac.t < EffectiveTimeout(dac.timeout)
       IN  dac' = IF inTime /\ present
                  THEN [dac EXCEPT !.t = @ + PollInterval]
                  ELSE [dac EXCEPT !.pc = "returned",
                                   !.result = inTime,
                                   !.absentAt = IF inTime THEN dac.t ELSE -1]

InitDelete ==
    /\ LifecycleIdle
    /\ localTree = Idle /\ vipTree = Idle /\ syncLog = Idle
    /\ dac = NoDelete /\ mkd = Idle /\ upl = Idle /\ tar = Idle /\ gi = Idle
    /\ pv = Idle
    /\ props = Idle

NextDelete ==
    \/ \E timeout \in {0, 4, 300, 600}, done \in BOOLEAN :
         /\ DeleteAndCheck(timeout, done)
         /\ UNCHANGED <<lifecycleVars, persistVars, syncVars, mkd, upl, pv, props, tar, gi>>
    \/ \E present \in BOOLEAN :
         /\ DeleteStandby(present)
         /\ UNCHANGED <<lifecycleVars, persistVars, syncVars, mkd, upl, pv, props, tar, gi>>

SpecDelete == InitDelete /\ [][NextDelete]_vars

\* C3 - Deletion confirmation bound, as claimed: the call returns true exactly
\* when the service reports the path absent within the timeout its caller gave.
C3_DeletionBound ==
    (dac.pc = "returned" /\ dac.raised = "none") =>
        (dac.result <=> (dac.absentAt # -1 /\ dac.absentAt <= dac.timeout))

-----------------------------------------------------------------------------
(* _parse_input_settings and _get_input_settings (VipSession) *)

\* self._local_input_dir, when it is defined.
LocalInputDir == <<"home", "in">>

\* A value of the input settings: a string or a PathLib object that stands for
\* a path of the VIP servers or of the local machine, or a number.
Text(loc, parts) == [type |-> "str",  loc |-> loc, abs |-> TRUE, parts |-> parts]
PathObject(loc, parts) == [type |-> "Path", loc |-> loc, abs |-> TRUE, parts |-> parts]
Number == [type |-> "int", loc |-> "none", abs |-> FALSE, parts |-> <<>>]

\* Paths below an input directory, and paths that are elsewhere.
Relatives == {<<"f">>, <<"d", "f">>}
PathParts ==
    [vip   |-> {VipInputDir \o r : r \in Relatives} \cup {ServerDefaultPath \o <<"f">>},
     local |-> {LocalInputDir \o r : r \in Relatives} \cup {<<"home", "f">>}]


\* The values of the model: a path is written in the style of its own location.
InputValues ==
    {Number} \cup UNION {{Text(l, p) : p \in PathParts[l]} : l \in {"vip", "local"}}
             \cup UNION {{PathObject(l, p) : p \in PathParts[l]} : l \in {"vip", "local"}}

\* input_path.relative_to(input_dir), the input itself on ValueError.
RelativeTo(input, dir) ==
    IF IsUnder(input.parts, dir)
    THEN [type |-> "Path", loc |-> input.loc, abs |-> FALSE,
          parts |-> SubSeq(input.parts, Len(dir) + 1, Len(input.parts))]
    ELSE input

\* parse_value(input) of _parse_input_settings: the value and the exception.
ParseValue(input, vipDefined, localDefined) ==
    IF input.type \notin {"str", "Path"}
    THEN [raised |-> "TypeError", value |-> input]
    ELSE IF GetAttrRaises("_SERVER_PATH_PREFIX") # "none"
    THEN [raised |-> GetAttrRaises("_SERVER_PATH_PREFIX"), value |-> input]
    ELSE IF input.loc = "vip"  \* str(input).startswith(<prefix of the VIP paths>)
    THEN [raised |-> "none",
          value |-> IF vipDefined THEN RelativeTo(input, VipInputDir) ELSE input]
    ELSE [raised |-> "none",
          value |-> IF localDefined THEN RelativeTo(input, LocalInputDir) ELSE input]

\* input_dir / value, then str(): an absolute value replaces the directory.
JoinPath(loc, dir, value) ==
    Text(loc, IF value.abs THEN value.parts ELSE dir \o value.parts)

\* get_input(value, target) of _get_input_settings.
GetInput(value, target, vipDefined, localDefined) ==
    IF value.type # "Path" THEN value
    ELSE IF target = "vip" /\ vipDefined THEN JoinPath("vip", VipInputDir, value)
    ELSE IF target = "local" /\ localDefined THEN JoinPath("local", LocalInputDir, value)
    ELSE [value EXCEPT !.type = "str"]

NoSettings ==
    [pc |-> "unset", vipDefined |-> FALSE, localDefined |-> FALSE, input |-> {},
     settings |-> {}, parsed |-> "no", target |-> "none", result |-> {}, raised |-> "none",
     sent |-> {}, parses |-> 0]

\* The setter of input_settings keeps the dictionary as it is given.
SetInputSettings(value) ==
    /\ pv.pc = "unset"
    /\ pv' = [pv EXCEPT !.pc = "set", !.input = {value}, !.settings = {value}]

\* The most calls of _update_input_settings on one session (each setter of an
\* input directory makes one).
MaxParses == 2

\* _update_input_settings: self._input_settings = self._parse_input_settings(...).
UpdateInputSettings ==
    /\ pv.pc \in {"set", "parsed"}
    /\ pv.parses < MaxParses
    /\ LET res == ParseValue(CHOOSE v \in pv.settings : TRUE, pv.vipDefined, pv.localDefined)
       IN  pv' = [pv EXCEPT !.pc = "parsed",
                            !.settings = IF res.raised = "none" THEN {res.value} ELSE @,
                            !.parsed = res.raised,
                            !.raised = res.raised,
                            !.parses = @ + 1]

\* _get_input_settings(target).
GetInputSettings(target) ==
    /\ pv.pc \in {"set", "parsed"}
    /\ pv' = IF target \notin {"vip", "local"}
             THEN [pv EXCEPT !.pc = "got", !.target = target, !.raised = "NotImplementedError"]
             ELSE [pv EXCEPT !.pc = "got", !.target = target, !.raised = "none",
                             !.result = {GetInput(CHOOSE v \in pv.settings : TRUE, target,
                                                  pv.vipDefined, pv.localDefined)}]

\* _init_exec: vip.init_exec(..., inputValues = self.input_settings, ...), the
\* getter of input_settings returning self._input_settings as it is stored.
InitExec ==
    /\ pv.pc \in {"set", "parsed"}
    /\ pv' = [pv EXCEPT !.pc = "launched", !.sent = pv.settings]

InitPath ==
    /\ LifecycleIdle
    /\ localTree = Idle /\ vipTree = Idle /\ syncLog = Idle
    /\ dac = Idle /\ mkd = Idle /\ upl = Idle /\ tar = Idle /\ gi = Idle
    /\ props = Idle
    /\ pv \in {[NoSettings EXCEPT !.vipDefined = v, !.localDefined = l] : v, l \in BOOLEAN}

NextPath ==
    \/ \E value \in InputValues :
         /\ SetInputSettings(value)
         /\ UNCHANGED <<lifecycleVars, persistVars, syncVars, dac, mkd, upl, props, tar, gi>>
    \/ /\ UpdateInputSettings
       /\ UNCHANGED <<lifecycleVars, persistVars, syncVars, dac, mkd, upl, props, tar, gi>>
    \/ \E target \in {"vip", "local", "other"} :
         /\ GetInputSettings(target)
         /\ UNCHANGED <<lifecycleVars, persistVars, syncVars, dac, mkd, upl, props, tar, gi>>
    \/ /\ InitExec
       /\ UNCHANGED <<lifecycleVars, persistVars, syncVars, dac, mkd, upl, props, tar, gi>>

SpecPath == InitPath /\ [][NextPath]_vars

\* The value is a path that lies strictly under the input directory of its location.
StrictlyUnderRoot(value, vipDefined, localDefined) ==
    /\ value.type \in {"str", "Path"}
    /\ \/ value.loc = "vip" /\ vipDefined
          /\ IsUnder(value.parts, VipInputDir) /\ value.parts # VipInputDir
       \/ value.loc = "local" /\ localDefined
          /\ IsUnder(value.parts, LocalInputDir) /\ value.parts # LocalInputDir

\* C5 - Path round-trip, as claimed: the settings {k: P}, P strictly under an
\* input directory, are parsed without an exception, and _get_input_settings,
\* asked for the location of P, then gives P back for k.
C5_PathRoundTrip ==
    \A P \in pv.input :
        (pv.parsed # "no" /\ StrictlyUnderRoot(P, pv.vipDefined, pv.localDefined)) =>
            /\ pv.parsed = "none"
            /\ (pv.pc = "got" /\ pv.target = P.loc) => pv.result = {Text(P.loc, P.parts)}

\* C24 - Parameters at rest are root-relative, as claimed: once the input
\* settings are set in a session whose input directories are defined, no stored
\* value is an absolute path that lies under the input directory of its
\* location (such a path is stored relatively to that directory).
C24_RelativeAtRest ==
    (pv.pc \in {"set", "parsed", "got"}) =>
        \A v \in pv.settings : ~StrictlyUnderRoot(v, pv.vipDefined, pv.localDefined)

\* C25 - Parameters are materialized at use, as claimed: what _init_exec
\* gives the service as input values is what _get_input_settings("vip") makes
\* of the stored settings, a path being sent as the text of an absolute path
\* and any other value unchanged.
C25_MaterializedAtUse ==
    (pv.pc = "launched" /\ pv.vipDefined) =>
        pv.sent = {GetInput(v, "vip", pv.vipDefined, pv.localDefined) : v \in pv.settings}

\* C36 - Pass-through of non-relativized values, as claimed: a value that is
\* not a path strictly under the input directory of its location (a number
\* included) is parsed without an exception and stored as it was given, and
\* _get_input_settings("vip" or "local") returns it with the same content.
C36_PassThrough ==
    \A v \in pv.input :
        ~StrictlyUnderRoot(v, pv.vipDefined, pv.localDefined) =>
            /\ (pv.parsed # "no") => (pv.parsed = "none" /\ pv.settings = {v})
            /\ (pv.pc = "got" /\ pv.target \in {"vip", "local"}) =>
                  \A r \in pv.result : r.parts = v.parts /\ r.abs = v.abs

\* C37 - Relativization is idempotent, as claimed: _update_input_settings
\* applied to settings it has parsed before returns without an exception and
\* leaves the stored settings as they were.
C37_ParseIdempotent ==
    [][(pv.parses >= 1 /\ pv'.parses > pv.parses) =>
          (pv'.raised = "none" /\ pv'.settings = pv.settings)]_vars

-----------------------------------------------------------------------------
(* The setters of the main properties (VipLauncher and VipSession) *)

\* The values given to the setters: two values per property, a session name
\* with a forbidden character, and for a local directory two spellings of the
\* same directory ("in", relative to the working directory "/cwd") and another.
SetterValues(prop) ==
    IF prop \in LocalPathProperties
    THEN {Str("in"), Str("/cwd/in"), Str("out"), WrongType}
    ELSE IF prop = "session_name" THEN {Str("a"), Str("b"), Str("a/"), WrongType}
    ELSE {Str("a"), Str("b"), WrongType}

\* Path.resolve(): the absolute path, the working directory being "/cwd".
Resolve(text) ==
    CASE text = "in"  -> "/cwd/in"
      [] text = "out" -> "/cwd/out"
      [] OTHER        -> text

\* isinstance(value, <expected type>) of the setter.
TypeOk(value) == value.type = "expected"

\* Mutant of Conflicts: no value conflicts with the stored one.
ConflictsNever(prop, value, stored) == FALSE

\* The conflict test of a setter, `stored` being the value the property holds:
\* the local directories are compared after Path.resolve(), the others as given.
Conflicts(prop, value, stored) ==
    IF prop \in LocalPathProperties
    THEN Resolve(value.text) # Resolve(stored.text)
    ELSE value.text # stored.text

\* _check_session_name: alphanumeric characters, spaces, '-' and '_' only.
\* _check_pipeline_id raises nothing while _PIPELINES is empty (init() not run).
CheckRaises(prop, value) ==
    IF prop = "session_name" /\ value.text = "a/" THEN "ValueError" ELSE "none"

\* _update_input_settings, which the setters of vip_input_dir and
\* local_input_dir call after the assignment: it parses the input settings
\* when they are defined (here a dictionary that holds a path as a string).
UpdateInputSettingsRaises(prop, settingsDefined) ==
    IF prop \in {"vip_input_dir", "local_input_dir"} /\ settingsDefined
    THEN ParseValue(Text("vip", VipInputDir \o <<"f">>), TRUE, TRUE).raised
    ELSE "none"

\* The exception that ends a setter before it assigns, if any.
SetterRefuses(prop, value, held) ==
    IF ~TypeOk(value) THEN "TypeError"
    ELSE IF \E stored \in held : Conflicts(prop, value, stored) THEN "ValueError"
    ELSE CheckRaises(prop, value)


\* `self.<prop> = value`.
SetProperty(prop, value) ==
    LET held    == props.value[prop]
        refused == SetterRefuses(prop, value, held)
    IN  props' =
          [value |-> IF refused # "none" THEN props.value
                     ELSE [props.value EXCEPT ![prop] = {value}],
           call  |-> [prop |-> prop, arg |-> value, before |-> held,
                      raised |-> IF refused # "none" THEN refused
                                 ELSE UpdateInputSettingsRaises(
                                        prop, props.value["input_settings"] # {})]]

InitProps ==
    /\ cls \in {"VipLauncher", "VipSession"}
    /\ workflows = <<>> /\ vipExists = BaseDirs /\ sharedInputs = FALSE
    /\ pc = "idle" /\ last = NoCall /\ localFiles = {}
    /\ sessionFile = "absent" /\ savedData = {} /\ loaded = {}
    /\ localTree = Idle /\ vipTree = Idle /\ syncLog = Idle
    /\ dac = Idle /\ mkd = Idle /\ upl = Idle /\ tar = Idle /\ gi = Idle
    /\ pv = Idle
    /\ props = [value |-> [q \in PropertyNames(cls) |-> {}], call |-> NoSetterCall]

NextProps ==
    \E prop \in PropertyNames(cls) : \E value \in SetterValues(prop) :
      /\ SetProperty(prop, value)
      /\ UNCHANGED <<lifecycleVars, persistVars, syncVars, dac, mkd, upl, pv, tar, gi>>

SpecProps == InitProps /\ [][NextProps]_vars

C38_SameValueAccepted ==
    [][LET c == props'.call
       IN  (props'.call # props.call /\ c.before # {} /\ c.arg \in c.before) =>
               (c.raised = "none" /\ props'.value = props.value)]_vars

-----------------------------------------------------------------------------
(* VipSession.__init__: construction over the session file of a prior session *)

\* The registries a prior session may have left: up to MaxWorkflows executions
\* as launch_pipeline records them, before or after a finish.
PriorRegistries ==
    LET launched == UNION {{LaunchRuns(<<>>, kinds, 1) : kinds \in [1..k -> ReplyKinds]} :
                             k \in 0..MaxWorkflows}
    IN  launched \cup {Reclassify(wfs, BaseDirs) : wfs \in launched}

\* The properties of a prior session of the same name, as it would save them.
Snapshot(wfs, shared) ==
    [session_name     |-> SessionName,
     local_output_dir |-> [type |-> "str", value |-> LocalOutputDir],
     vip_input_dir    |-> IF shared THEN "other" ELSE "own",
     vip_output_dir   |-> VipOutputDir,
     workflows        |-> wfs]

\* The properties the constructor deals with (the registry is `workflows`),
\* and the value it gives each.
ConstructorProperties == PropertyNames("VipSession") \ {"workflows"}
ConstructorValue(prop) ==
    CASE prop = "session_name"     -> Str(SessionName)
      [] prop = "local_output_dir" -> Str("out")
      [] prop = "local_input_dir"  -> Str("in")
      [] prop = "vip_input_dir"    -> Str("INPUTS")
      [] prop = "vip_output_dir"   -> Str("OUTPUTS")
      [] OTHER                     -> Str("a")

\* VipSession(session_name, input_dir, verbose): the parent's constructor sets
\* the name and an empty registry, then the local output directory is set,
\* then `if not self._load_session(verbose=verbose)` decides on the defaults.
\* What _load_session returns is tested and dropped: nothing assigns it.
Construct(input_dir, verbose) ==
    /\ pc = "new"
    /\ LET bound    == CallRaises({}, LoadSessionAccepted, {"verbose"})
           raised   == IF bound # "none" THEN bound ELSE LoadSession(sessionFile).raised
           data     == IF raised = "none" THEN LoadSession(sessionFile).data ELSE {}
           defaults == raised = "none" /\ data = {}
           assigned == {"session_name", "local_output_dir"}
                       \cup (IF defaults THEN {"vip_input_dir", "vip_output_dir"} ELSE {})
                       \cup (IF defaults /\ input_dir THEN {"local_input_dir"} ELSE {})
       IN  /\ workflows' = <<>>
           /\ sharedInputs' = FALSE
           /\ props' = [value |-> [q \in ConstructorProperties |->
                                     IF q \in assigned THEN {ConstructorValue(q)} ELSE {}],
                        call |-> NoSetterCall]
           /\ loaded' = data
           /\ pc' = IF raised = "none" THEN "idle" ELSE "failed"
           /\ last' = [NoCall EXCEPT !.op = "init", !.raised = raised,
                                     !.arg = [input_dir |-> input_dir, verbose |-> verbose]]
    /\ UNCHANGED <<cls, vipExists, localFiles, sessionFile, savedData>>

InitResume ==
    /\ cls = "VipSession"
    /\ workflows = <<>> /\ sharedInputs = FALSE
    /\ vipExists \in {BaseDirs, BaseDirs \cup {VipDir, VipOutputDir, ResultDir}}
    /\ pc = "new" /\ last = NoCall /\ localFiles = {}
    /\ sessionFile \in {JsonDump(Snapshot(wfs, shared)) :
                          wfs \in PriorRegistries, shared \in BOOLEAN}
    /\ savedData = {} /\ loaded = {}
    /\ localTree = Idle /\ vipTree = Idle /\ syncLog = Idle
    /\ dac = Idle /\ mkd = Idle /\ upl = Idle /\ tar = Idle /\ gi = Idle
    /\ pv = Idle
    /\ props = [value |-> [q \in ConstructorProperties |-> {}], call |-> NoSetterCall]

NextResume ==
    \E input_dir \in BOOLEAN, verbose \in BOOLEAN :
      /\ Construct(input_dir, verbose)
      /\ UNCHANGED <<syncVars, dac, mkd, upl, pv, tar, gi>>

SpecResume == InitResume /\ [][NextResume]_vars

\* C16 - Exact resumption, as claimed: constructing a VipSession over the
\* session file of a prior session succeeds and restores the registry and the
\* input directory on VIP that the file holds.
C16_ExactResumption ==
    (last.op = "init") =>
        /\ last.raised = "none"
        /\ workflows = JsonLoad(sessionFile).workflows
        /\ sharedInputs = (JsonLoad(sessionFile).vip_input_dir = "other")

-----------------------------------------------------------------------------
(* _mkdirs (VipLauncher), one request to the file system at a time *)

\* The paths _mkdirs is called with, and the directories the file system may
\* hold: the root, and no directory without its parent.
MkdirsTargets ==
    {<<"a">>, <<"a", "b">>, <<"a", "b", "c">>, <<"a", "d">>, <<"e", "f", "g">>}
MkdirsTrees ==
    {fs \in SUBSET UNION {Prefixes(p) : p \in MkdirsTargets} :
        <<>> \in fs /\ \A p \in fs : Parent(p) \in fs}

NoMkdirs ==
    [pc |-> "idle", path |-> <<>>, before |-> {}, fs |-> {}, first_node |-> <<>>,
     dir_to_make |-> <<>>, calls |-> <<>>, ret |-> <<>>, raised |-> "none"]

\* Mutant of ParentMissing: the walk up the path is skipped.
ParentMissingNever(node, fs) == FALSE

\* while not cls._exists(first_node.parent, location)
ParentMissing(node, fs) == Parent(node) \notin fs

\* cls._create_dir(path): the request is sent; the directory is made, or the
\* service refuses and _create_dir raises AssertionError.
CreateDir(m, dir, ok) ==
    IF ok THEN [m EXCEPT !.pc = "make", !.fs = @ \cup {dir}, !.dir_to_make = dir,
                         !.calls = Append(@, dir)]
    ELSE [m EXCEPT !.pc = "raised", !.calls = Append(@, dir), !.raised = "AssertionError"]

\* if cls._exists(path): return ""  /  first_node = path
MkdirsCheck ==
    /\ mkd.pc = "start"
    /\ mkd' = IF mkd.path \in mkd.fs
              THEN [mkd EXCEPT !.pc = "done", !.ret = <<>>]
              ELSE [mkd EXCEPT !.pc = "find", !.first_node = mkd.path]

\* first_node = first_node.parent
MkdirsWalkUp ==
    /\ mkd.pc = "find"
    /\ ParentMissing(mkd.first_node, mkd.fs)
    /\ mkd' = [mkd EXCEPT !.first_node = Parent(@)]

\* cls._create_dir(path=first_node); dir_to_make = first_node
MkdirsCreateFirst(ok) ==
    /\ mkd.pc = "find"
    /\ ~ParentMissing(mkd.first_node, mkd.fs)
    /\ mkd' = CreateDir(mkd, mkd.first_node, ok)

\* dir_to_make /= path.relative_to(dir_to_make).parts[0]; cls._create_dir(dir_to_make)
MkdirsCreateNext(ok) ==
    /\ mkd.pc = "make"
    /\ mkd.dir_to_make # mkd.path
    /\ mkd' = CreateDir(mkd, SubSeq(mkd.path, 1, Len(mkd.dir_to_make) + 1), ok)

\* return str(path.relative_to(first_node.parent))
MkdirsEnd ==
    /\ mkd.pc = "make"
    /\ mkd.dir_to_make = mkd.path
    /\ mkd' = [mkd EXCEPT !.pc = "done",
                          !.ret = SubSeq(mkd.path, Len(mkd.first_node), Len(mkd.path))]

InitMkdirs ==
    /\ LifecycleIdle
    /\ localTree = Idle /\ vipTree = Idle /\ syncLog = Idle
    /\ dac = Idle /\ upl = Idle /\ tar = Idle /\ gi = Idle
    /\ pv = Idle
    /\ props = Idle
    /\ mkd \in {[NoMkdirs EXCEPT !.pc = "start", !.path = p, !.before = fs, !.fs = fs] :
                  p \in MkdirsTargets, fs \in MkdirsTrees}

NextMkdirs ==
    /\ \/ MkdirsCheck
       \/ MkdirsWalkUp
       \/ \E ok \in BOOLEAN : MkdirsCreateFirst(ok)
       \/ \E ok \in BOOLEAN : MkdirsCreateNext(ok)
       \/ MkdirsEnd
    /\ UNCHANGED <<lifecycleVars, persistVars, syncVars, dac, upl, pv, props, tar, gi>>

\* The call runs on the calling thread, which goes on as long as it can.
SpecMkdirs == InitMkdirs /\ [][NextMkdirs]_vars /\ WF_vars(NextMkdirs)

\* C26 - Ancestor creation order: _mkdirs ends; every directory it asks the
\* service to create is a missing directory of the path whose parent exists,
\* the first one being the first missing ancestor and each next one the child
\* of the one before; when it returns, the path and its ancestors exist, the
\* directories requested are exactly those that were missing, and the value
\* returned is empty exactly when the path existed before the call.
C26_AncestorCreationOrder ==
    /\ [][/\ (Len(mkd'.calls) > Len(mkd.calls)) =>
                LET d == mkd'.calls[Len(mkd'.calls)]
                IN  /\ d \in Prefixes(mkd.path)
                    /\ d \notin mkd.fs
                    /\ Parent(d) \in mkd.fs
                    /\ (mkd.calls # <<>>) => Parent(d) = mkd.calls[Len(mkd.calls)]
          /\ (mkd'.pc = "done") =>
                /\ Prefixes(mkd'.path) \subseteq mkd'.fs
                /\ SeqRange(mkd'.calls) = Prefixes(mkd'.path) \ mkd'.before
                /\ (mkd'.ret = <<>>) <=> (mkd'.path \in mkd'.before)]_vars
    /\ <>(mkd.pc \in {"done", "raised"})

\* A call for a/b/c that found a and made a/b, then a/b/c.
C26_Witness ==
    /\ mkd.pc = "done"
    /\ mkd.path = <<"a", "b", "c">>
    /\ mkd.calls = << <<"a", "b">>, <<"a", "b", "c">> >>
    /\ mkd.ret = <<"b", "c">>

-----------------------------------------------------------------------------
(* _upload_dir (VipSession), one upload at a time: local_path.iterdir() yields
   the files of a directory, and its sub-directories, in an arbitrary order *)

NoUpload ==
    [pc |-> "idle", dir |-> <<>>, ok |-> {}, start |-> [dirs |-> {}, files |-> {}],
     pending |-> {}, todo |-> {}, sent |-> <<>>, failures |-> <<>>]

\* Mutant of Remaining: the loop over the files stops at the first failure.
RemainingUntilFailure(todo, file, ok) == IF file \in ok THEN todo \ {file} ELSE {}

\* for local_file in files_to_upload: the files the loop has yet to handle.
Remaining(todo, file, ok) == todo \ {file}

\* The call reaches a directory: cls._mkdirs(vip_path), then the scan of the
\* distant directory when it existed, which give files_to_upload.
UplEnter ==
    /\ upl.pc = "enter"
    /\ LET path    == VipInputDir \o upl.dir
           dirs1   == vipTree.dirs \cup SeqRange(MkdirsCreated(path, vipTree.dirs))
           created == MkdirsReturn(path, vipTree.dirs)
           names   == ListElements([vipTree EXCEPT !.dirs = dirs1], path)
       IN  /\ vipTree' = [vipTree EXCEPT !.dirs = dirs1]
           /\ upl' = [upl EXCEPT
                        !.pc = "files",
                        !.todo = FilesToUpload(IterFiles(localTree, upl.dir), created, names),
                        !.pending = IF upl.dir = <<>> THEN IterDirs(localTree, <<>>) ELSE @]

\* cls._upload_file(local_file, vip_path/local_file.name), for the file the
\* iteration yields next.
UplFile(file) ==
    /\ upl.pc = "files"
    /\ file \in upl.todo
    /\ vipTree' = [vipTree EXCEPT
                     !.files = IF file \in upl.ok THEN @ \cup {VipInputDir \o file} ELSE @]
    /\ upl' = [upl EXCEPT
                 !.todo = Remaining(@, file, upl.ok),
                 !.sent = Append(@, file),
                 !.failures = IF file \in upl.ok THEN @ ELSE Append(@, file)]

\* for subdir in subdirs: failures += cls._upload_dir(subdir, vip_path/subdir.name)
UplRecurse(subdir) ==
    /\ upl.pc = "files"
    /\ upl.todo = {}
    /\ subdir \in upl.pending
    /\ upl' = [upl EXCEPT !.pc = "enter", !.dir = subdir, !.pending = @ \ {subdir}]
    /\ UNCHANGED vipTree

\* return failures
UplReturn ==
    /\ upl.pc = "files"
    /\ upl.todo = {}
    /\ upl.pending = {}
    /\ upl' = [upl EXCEPT !.pc = "done"]
    /\ UNCHANGED vipTree

InitOrder ==
    /\ LifecycleIdle
    /\ localTree \in {t \in LocalTrees : <<>> \in t.dirs}
    /\ vipTree \in VipTrees
    /\ syncLog = Idle
    /\ dac = Idle /\ mkd = Idle /\ tar = Idle /\ gi = Idle
    /\ pv = Idle
    /\ props = Idle
    /\ upl \in {[NoUpload EXCEPT !.pc = "enter", !.ok = ok, !.start = vipTree] :
                  ok \in SUBSET localTree.files}

NextOrder ==
    /\ \/ UplEnter
       \/ \E file \in localTree.files : UplFile(file)
       \/ \E subdir \in localTree.dirs : UplRecurse(subdir)
       \/ UplReturn
    /\ UNCHANGED <<lifecycleVars, persistVars, localTree, syncLog, dac, mkd, pv, props, tar, gi>>

SpecOrder == InitOrder /\ [][NextOrder]_vars

\* C29 - Transfer order independence: when the call returns, the files it
\* reports as failed and the files the input directory on VIP holds are given
\* by the local tree, the distant tree before the call and the outcome of each
\* upload alone, whatever the order in which the uploads were made.
C29_OrderIndependence ==
    (upl.pc = "done") =>
        LET needed == {f \in localTree.files : VipInputDir \o f \notin upl.start.files}
        IN  /\ SeqRange(upl.failures) = needed \ upl.ok
            /\ vipTree.files = upl.start.files \cup {VipInputDir \o f : f \in needed \cap upl.ok}
            /\ vipTree.dirs = upl.start.dirs
                                \cup UNION {Prefixes(VipInputDir \o d) : d \in localTree.dirs}

\* A call that uploaded "b" before "a" from the root, the upload of "b"
\* failing, then a file of the sub-directory.
C29_Witness ==
    /\ upl.pc = "done"
    /\ Len(upl.sent) = 3
    /\ upl.sent[1] = <<"b">> /\ upl.sent[2] = <<"a">> /\ Len(upl.sent[3]) = 2
    /\ upl.failures = << <<"b">> >>

-----------------------------------------------------------------------------
(* _extract_tarball (VipSession), one file-system operation at a time.  The
   directory of `local_file` is a function from names to entries: nothing, a
   file, or a directory; `members` are the members an archive holds or the
   ones a directory received. *)

\* The most members an archive of the model holds.
MaxMembers == 2

\* The names a downloaded archive has in the model.
TarballNames == {"out.tgz", "res.tar.gz"}

\* archive = local_file.parent / "tmp.tgz"
TmpArchive == "tmp.tgz"

\* An entry of the directory: kind "none", "file" or "dir".
Entry(kind, ms) == [kind |-> kind, members |-> ms]

\* os.rename(src, dst): moving a file onto an existing directory raises
\* (IsADirectoryError on Unix, FileExistsError on Windows: OSError both);
\* otherwise the entry moves.
OsRename(fs, src, dst) ==
    IF fs[dst].kind = "dir"
    THEN [fs |-> fs, raised |-> "OSError"]
    ELSE [fs |-> [fs EXCEPT ![dst] = fs[src], ![src] = Entry("none", {})],
          raised |-> "none"]

\* os.rename(local_file, archive)
TarRename ==
    /\ tar.pc = "start"
    /\ LET r == OsRename(tar.fs, tar.local_file, TmpArchive)
       IN  tar' = [tar EXCEPT !.fs = r.fs, !.raised = r.raised,
                              !.pc = IF r.raised = "none" THEN "mkdirs" ELSE "raised"]

\* cls._mkdirs(local_file, location="local"): the parent exists and the path
\* does not, so _create_dir makes the one directory.
TarMkdirs ==
    /\ tar.pc = "mkdirs"
    /\ tar' = [tar EXCEPT !.pc = "extract",
                          !.fs = IF @[tar.local_file].kind = "none"
                                 THEN [@ EXCEPT ![tar.local_file] = Entry("dir", {})]
                                 ELSE @]

\* tgz.extractall(path=local_file), the next member
TarExtractMember ==
    /\ tar.pc = "extract"
    /\ LET done == tar.fs[tar.local_file].members
       IN  /\ Cardinality(done) < tar.plan.upto
           /\ tar' = [tar EXCEPT !.fs[tar.local_file] =
                                     Entry("dir", done \cup {Cardinality(done) + 1})]

\* success = True  /  except: success = False
TarExtractEnd ==
    /\ tar.pc = "extract"
    /\ Cardinality(tar.fs[tar.local_file].members) = tar.plan.upto
    /\ tar' = [tar EXCEPT !.pc = "deal", !.success = tar.plan.ok]

\* if success: os.remove(archive); return success
TarRemove ==
    /\ tar.pc = "deal"
    /\ tar.success
    /\ tar' = [tar EXCEPT !.pc = "done", !.fs[TmpArchive] = Entry("none", {}),
                          !.ret = "True"]

\* else: os.rename(archive, local_file); return success
TarRestore ==
    /\ tar.pc = "deal"
    /\ ~tar.success
    /\ LET r == OsRename(tar.fs, TmpArchive, tar.local_file)
       IN  tar' = [tar EXCEPT !.fs = r.fs, !.raised = r.raised,
                              !.pc = IF r.raised = "none" THEN "done" ELSE "raised",
                              !.ret = IF r.raised = "none" THEN "False" ELSE "none"]

\* The directory holds the downloaded archive, perhaps a file next to it, and
\* no temporary archive.  `plan` is what the extraction will do: write every
\* member (ok), or raise after `upto` members were written.
InitExtract ==
    /\ LifecycleIdle
    /\ localTree = Idle /\ vipTree = Idle /\ syncLog = Idle
    /\ dac = Idle /\ mkd = Idle /\ upl = Idle /\ gi = Idle
    /\ pv = Idle
    /\ props = Idle
    /\ \E f \in TarballNames, n \in 0..MaxMembers, ok \in BOOLEAN, sib \in BOOLEAN :
         \E upto \in 0..n :
           /\ ok => upto = n
           /\ LET fs == [d \in TarballNames \cup {"notes.txt", TmpArchive} |->
                           IF d = f THEN Entry("file", 1..n)
                           ELSE IF d = "notes.txt" /\ sib THEN Entry("file", {})
                           ELSE Entry("none", {})]
              IN  tar = [pc |-> "start", local_file |-> f, before |-> fs, fs |-> fs,
                         plan |-> [ok |-> ok, upto |-> upto], success |-> FALSE,
                         ret |-> "none", raised |-> "none"]

NextExtract ==
    /\ \/ TarRename
       \/ TarMkdirs
       \/ TarExtractMember
       \/ TarExtractEnd
       \/ TarRemove
       \/ TarRestore
    /\ UNCHANGED <<lifecycleVars, persistVars, syncVars, dac, mkd, upl, pv, props, gi>>

SpecExtract == InitExtract /\ [][NextExtract]_vars

\* C35 - Archive extraction outcome, as claimed: when _extract_tarball ends, a
\* successful extraction has left a directory with the archive's content at the
\* local path and no archive; a failed one has left the original archive back
\* at the local path; in both cases no temporary archive remains.
C35_ExtractionOutcome ==
    (tar.pc \in {"done", "raised"}) =>
        /\ tar.fs[TmpArchive].kind = "none"
        /\ IF tar.plan.ok
           THEN tar.fs[tar.local_file] =
                    [kind |-> "dir", members |-> tar.before[tar.local_file].members]
           ELSE tar.fs[tar.local_file] = tar.before[tar.local_file]

-----------------------------------------------------------------------------
(* get_inputs (VipSession) and _set (VipLauncher): the current session takes
   the inputs of another one.  A property is the set of its values: {} when
   it is undefined (its getter returns None). *)

\* One round of the loop of _set: delattr when the property is defined, then
\* setattr when the value is not None.  The setters of the input directories
\* end with _update_input_settings, which parses the input settings when they
\* are defined and hold a path (here as a string).
SetOne(values, prop, value) ==
    LET erased == [values EXCEPT ![prop] = {}]
    IN  IF value = {} THEN [values |-> erased, raised |-> "none"]
        ELSE LET assigned == [erased EXCEPT ![prop] = value]
             IN  [values |-> assigned,
                  raised |-> IF /\ prop \in {"local_input_dir", "vip_input_dir"}
                                /\ \E d \in assigned["input_settings"] : d.paths
                             THEN ParseValue(Text("vip", VipInputDir \o <<"f">>),
                                             TRUE, TRUE).raised
                             ELSE "none"]

\* The calls of _set in get_inputs, one property after the other, until one raises.
RECURSIVE SetAll(_, _, _, _)
SetAll(values, names, other, i) ==
    IF i > Len(names) THEN [values |-> values, raised |-> "none"]
    ELSE LET res == SetOne(values, names[i], other[names[i]])
         IN  IF res.raised # "none" THEN res
             ELSE SetAll(res.values, names, other, i + 1)

\* Mutant of GetInputsStops: no check stops the call.
GetInputsStopsNever(mine, other, selfData, otherData) == "none"

\* The checks get_inputs makes before it changes anything, in their order:
\* "shared" (return self), an exception, or "none" (go on).
GetInputsStops(mine, other, selfData, otherData) ==
    IF mine["vip_input_dir"] = other["vip_input_dir"] THEN "shared"
    ELSE IF selfData THEN "FileExistsError"
    ELSE IF ~otherData THEN "FileNotFoundError"
    ELSE "none"

\* The most calls of get_inputs on one session.
MaxGetInputs == 2

\* get_inputs(session, get_pipeline, get_settings); `selfData` and `otherData`
\* are the service's answers about self._vip_dir and session._vip_input_dir.
GetInputs(get_pipeline, get_settings, selfData, otherData) ==
    /\ gi.call.calls < MaxGetInputs
    /\ LET stops  == GetInputsStops(gi.mine, gi.other, selfData, otherData)
           taken  == <<"local_input_dir", "vip_input_dir">>
                        \o (IF get_pipeline THEN <<"pipeline_id">> ELSE <<>>)
                        \o (IF get_settings THEN <<"input_settings">> ELSE <<>>)
           res    == IF stops = "none"
                     THEN SetAll(gi.mine, taken, gi.other, 1)
                     ELSE [values |-> gi.mine, raised |-> "none"]
           reach  == stops = "none" /\ res.raised = "none"
           save   == CallRaises(SaveSessionRequired, SaveSessionAccepted, {})
       IN  gi' = [gi EXCEPT
                    !.mine = res.values,
                    !.call = [done |-> TRUE, get_pipeline |-> get_pipeline,
                              get_settings |-> get_settings,
                              selfData |-> selfData, otherData |-> otherData,
                              before |-> gi.mine,
                              stops |-> stops,
                              raised |-> IF stops \notin {"none", "shared"} THEN stops
                                         ELSE IF res.raised # "none" THEN res.raised
                                         ELSE IF reach THEN save ELSE "none",
                              saveCalled |-> reach,
                              saved |-> reach /\ save = "none",
                              calls |-> gi.call.calls + 1]]

\* Two sessions after their construction: each has its input directory on VIP,
\* the current one its own or the one of the other session.  Input settings
\* are a dictionary that holds a path, or one that holds none (and that
\* parse_value never looks into).
SessionProps(vipDirs) ==
    {[q \in {"local_input_dir", "vip_input_dir", "pipeline_id", "input_settings"} |->
        CASE q = "local_input_dir" -> l
          [] q = "vip_input_dir"   -> {v}
          [] q = "pipeline_id"     -> p
          [] q = "input_settings"  -> s] :
       l \in {{}, {Str("in")}}, v \in vipDirs, p \in {{}, {Str("a")}},
       s \in {{}, {[name |-> "s", paths |-> FALSE]}, {[name |-> "t", paths |-> TRUE]}}}

InitInputs ==
    /\ LifecycleIdle
    /\ localTree = Idle /\ vipTree = Idle /\ syncLog = Idle
    /\ dac = Idle /\ mkd = Idle /\ upl = Idle /\ tar = Idle
    /\ pv = Idle
    /\ props = Idle
    /\ \E mine \in SessionProps({Str("INPUTS"), Str("shared")}),
          other \in SessionProps({Str("shared")}) :
         gi = [mine |-> mine, other |-> other,
               call |-> [done |-> FALSE, get_pipeline |-> FALSE, get_settings |-> FALSE,
                         selfData |-> FALSE, otherData |-> FALSE, before |-> mine,
                         stops |-> "none", raised |-> "none", saveCalled |-> FALSE,
                         saved |-> FALSE, calls |-> 0]]

NextInputs ==
    \E get_pipeline, get_settings, selfData, otherData \in BOOLEAN :
      /\ GetInputs(get_pipeline, get_settings, selfData, otherData)
      /\ UNCHANGED <<lifecycleVars, persistVars, syncVars, dac, mkd, upl, pv, props, tar>>

SpecInputs == InitInputs /\ [][NextInputs]_vars

\* C39 - _set ignores None, as claimed: after get_inputs took the pipeline
\* identifier (or the input settings) of a session in which it is undefined,
\* the current session's pipeline identifier (or input settings) is the one
\* it had before the call.
C39_SetIgnoresNone ==
    (gi.call.done /\ gi.call.stops = "none") =>
        /\ (gi.call.get_pipeline /\ gi.other["pipeline_id"] = {}) =>
               gi.mine["pipeline_id"] = gi.call.before["pipeline_id"]
        /\ (gi.call.get_settings /\ gi.other["input_settings"] = {}) =>
               gi.mine["input_settings"] = gi.call.before["input_settings"]

\* C40 - get_inputs error profile: a call on sessions that share their VIP
\* input directory returns; otherwise it raises FileExistsError when the
\* current session has data on VIP, and FileNotFoundError when it has none and
\* the other session's input directory does not exist on VIP; in these three
\* cases no property of the current session changes and _save_session is not
\* called.
C40_GetInputsErrorProfile ==
    gi.call.done =>
        LET c      == gi.call
            shared == c.before["vip_input_dir"] = gi.other["vip_input_dir"]
            frame  == gi.mine = c.before /\ ~c.saveCalled /\ ~c.saved
        IN  /\ shared => (c.raised = "none" /\ frame)
            /\ (~shared /\ c.selfData) => (c.raised = "FileExistsError" /\ frame)
            /\ (~shared /\ ~c.selfData /\ ~c.otherData) =>
                  (c.raised = "FileNotFoundError" /\ frame)

\* A call refused because the other session has no input data on VIP, made to
\* take a pipeline identifier and settings that differ from the current ones.
C40_Witness ==
    /\ gi.call.done /\ gi.call.raised = "FileNotFoundError"
    /\ gi.call.get_pipeline /\ gi.call.get_settings
    /\ gi.mine["pipeline_id"] = {} /\ gi.other["pipeline_id"] # {}
    /\ gi.mine["input_settings"] # gi.other["input_settings"]
    /\ gi.mine["vip_input_dir"] # gi.other["vip_input_dir"]

====
